---- MODULE Spec2Model ----
(***************************************************************************)
(* Token list front end (src/src/App.tsx, Token.tsx): the add-token form,  *)
(* the transient notification with its auto-clear timers, and the sync     *)
(* cycles (get_tokens followed by per-entry ft_balance_of / ft_metadata    *)
(* lookups) that feed the displayed token list.                            *)
(*                                                                         *)
(* JavaScript runs each task to completion, so every action below is one   *)
(* task: the synchronous prefix of a handler up to its first await on a    *)
(* remote call, or the continuation that runs when a remote call settles.  *)
(***************************************************************************)
EXTENDS Integers, Sequences, FiniteSets, TLC

\* Bounds of the model.
MaxSubmits == 2          \* submit events handled in one behaviour
MaxLen == 3              \* longest registry page drawn for the enrichment

\* Program constants.
NotificationDelay == 11  \* setTimeout(..., 11000), in seconds
ListLimit == 100         \* get_tokens({from_index: 0, limit: 100})

VARIABLES
    accountId,              \* window.accountId ("undefined" when signed out)
    registry,               \* the remote registry, in insertion order
    tokenValue,             \* the DOM value of <input id="token">
    buttonDisabled,         \* useState(true)
    fieldsetDisabled,       \* fieldset.disabled
    inFlight,               \* add_token calls issued and not yet settled
    nSubmits,               \* submit events handled so far
    notificationMessage,    \* useState("")
    isFailureNotification,  \* useState(false)
    showNotification,       \* useState(false)
    timers,                 \* pending auto-clear timers: seconds left, oldest first
    tokens,                 \* useState<TokenData[]>([])
    syncs,                  \* the getTokenData calls, by number
    nSyncs,                 \* getTokenData calls started so far
    completed,              \* the call whose .then(setTokens) ran last (id 0 if
                            \* none) and the page it had listed
    lastRun                 \* what the submit handler did that ran in the step just
                            \* taken (NoRun when that step settled no add_token)

vars == <<accountId, registry, tokenValue, buttonDisabled, fieldsetDisabled,
          inFlight, nSubmits, notificationMessage, isFailureNotification,
          showNotification, timers, tokens, syncs, nSyncs, completed, lastRun>>

formVars == <<tokenValue, buttonDisabled, fieldsetDisabled, inFlight, nSubmits>>
notifVars == <<notificationMessage, isFailureNotification, showNotification, timers>>
syncVars == <<tokens, syncs, nSyncs, completed>>

----------------------------------------------------------------------------
(* Values *)

PageIdentifiers == {"a.test", "b.test", "c.test", "d.test"}
InputValues == {"", "a.test"}
Viewers == {"undefined", "alice.test"}

\* JavaScript truthiness of a string-or-undefined value.
Truthy(s) == s \notin {"undefined", ""}

\* balance: number | null. Raw balances are non-negative; Null stands for null.
Null == -1

\* What the token contracts answer (the remote side of viewFunction).
RemoteBalance(id) ==
    CASE id = "a.test" -> 0
      [] id = "b.test" -> 1500
      [] OTHER -> 42

RemoteMetadata(id) ==
    CASE id = "a.test" -> [name |-> "Alpha", symbol |-> "ALP", decimals |-> 6]
      [] id = "b.test" -> [name |-> "Beta", symbol |-> "BET", decimals |-> 2]
      [] OTHER -> [name |-> "Gamma", symbol |-> "GAM", decimals |-> 0]

NoMetadata == [name |-> "", symbol |-> "", decimals |-> 0]

\* A slot of pMap's result array that no mapper has filled yet.
Hole == [accountId |-> "", balance |-> Null, metadata |-> NoMetadata]

TokenData(id, bal, meta) == [accountId |-> id, balance |-> bal, metadata |-> meta]

Min(a, b) == IF a <= b THEN a ELSE b

Last(s) == s[Len(s)]

\* Strings that are searched are sequences of words; the empty string is << >>.
Needle == <<"Unable", "to", "get", "result", "of", "token", "account", "verification">>

\* String.prototype.includes on word sequences.
Includes(hay, needle) ==
    \E i \in 0..(Len(hay) - Len(needle)) : SubSeq(hay, i + 1, i + Len(needle)) = needle

\* The template literal `Added ${token.value} to the token list`.
AddedMessage(v) == <<"Added ", v, " to the token list">>

NotTokenMessage == <<"The provided account ID does not contain a fungible token contract">>

----------------------------------------------------------------------------
(* Rejections of add_token *)

\* (e as Error).message, by what JSON.parse makes of it: whether it parses,
\* whether it parses to null, whether the object has a kind object, and what
\* kind.ExecutionError is.
Payload(parseable, isNull, hasKind, execType, execText) ==
    [parseable |-> parseable, isNull |-> isNull, hasKind |-> hasKind,
     execType |-> execType, execText |-> execText]

NoPayload == Payload(FALSE, FALSE, FALSE, "absent", << >>)

Rejections ==
    { Payload(FALSE, FALSE, FALSE, "absent", << >>),   \* "Failed to fetch"
      Payload(TRUE, TRUE, FALSE, "absent", << >>),     \* "null"
      Payload(TRUE, FALSE, TRUE, "absent", << >>),     \* {"kind":{}}
      Payload(TRUE, FALSE, TRUE, "string", <<"Unable", "to", "get", "result">>),
      Payload(TRUE, FALSE, TRUE, "string",
              <<"Smart", "contract", "panicked:">> \o Needle),
      Payload(TRUE, FALSE, TRUE, "number", << >>) }    \* {"kind":{"ExecutionError":7}}

\* JSON.parse throws a SyntaxError.
JSONParseThrows(p) == ~p.parseable

\* jsonError && jsonError?.kind?.ExecutionError && jsonError.kind.ExecutionError.includes(...)
\* "true", "falsy", or "TypeError" when includes is not a function of the value.
isNotTokenAccount(p) ==
    IF p.isNull THEN "falsy"
    ELSE IF ~p.hasKind \/ p.execType = "absent" THEN "falsy"
    ELSE IF p.execType = "string" /\ p.execText = << >> THEN "falsy"
    ELSE IF p.execType # "string" THEN "TypeError"
    ELSE IF Includes(p.execText, Needle) THEN "true"
    ELSE "falsy"

\* Mutant: every rejection is reported as not a token account.
CatchPathAlwaysNotify(p) == "notify"

\* The catch block: which of its paths the rejection takes.
CatchPath(p) ==
    IF JSONParseThrows(p) THEN "alert"
    ELSE IF isNotTokenAccount(p) = "TypeError" THEN "alert"
    ELSE IF isNotTokenAccount(p) = "true" THEN "notify"
    ELSE "silent"

NoRun == [added |-> "", settle |-> "none", payload |-> NoPayload, events |-> << >>]

----------------------------------------------------------------------------
(* The notification *)

\* Mutant: the message is set but the notification is not made visible.
NotifySuccessMessageOnly(v) ==
    /\ notificationMessage' = AddedMessage(v)
    /\ UNCHANGED <<showNotification, isFailureNotification>>
    /\ timers' = Append(timers, NotificationDelay)

\* setNotificationMessage(`Added ...`); setShowNotification(true); setTimeout(...)
NotifySuccess(v) ==
    /\ notificationMessage' = AddedMessage(v)
    /\ showNotification' = TRUE
    /\ UNCHANGED isFailureNotification
    /\ timers' = Append(timers, NotificationDelay)

\* Mutant: the failure flag is not set.
NotifyNotTokenNoFlag ==
    /\ notificationMessage' = NotTokenMessage
    /\ showNotification' = TRUE
    /\ UNCHANGED isFailureNotification
    /\ timers' = Append(timers, NotificationDelay)

\* setNotificationMessage("The provided ..."); setIsFailureNotification(true);
\* setShowNotification(true); setTimeout(...)
NotifyNotToken ==
    /\ notificationMessage' = NotTokenMessage
    /\ isFailureNotification' = TRUE
    /\ showNotification' = TRUE
    /\ timers' = Append(timers, NotificationDelay)

\* Mutant: the callback hides the notification but keeps its message.
ClearNotificationKeepsMessage ==
    /\ UNCHANGED notificationMessage
    /\ isFailureNotification' = FALSE
    /\ showNotification' = FALSE

\* The timer callback.
ClearNotification ==
    /\ notificationMessage' = << >>
    /\ isFailureNotification' = FALSE
    /\ showNotification' = FALSE

\* Time passes by one second; a timer that is due fires first.
Tick ==
    /\ timers # << >>
    /\ \A i \in 1..Len(timers) : timers[i] > 0
    /\ timers' = [i \in 1..Len(timers) |-> timers[i] - 1]
    /\ UNCHANGED <<notificationMessage, isFailureNotification, showNotification>>
    /\ UNCHANGED <<accountId, registry, formVars, syncVars>>
    /\ lastRun' = NoRun

\* The oldest pending timer is due and its callback runs.
TimerFires ==
    /\ timers # << >>
    /\ timers[1] = 0
    /\ ClearNotification
    /\ timers' = Tail(timers)
    /\ UNCHANGED <<accountId, registry, formVars, syncVars>>
    /\ lastRun' = NoRun

----------------------------------------------------------------------------
(* getTokenData: one sync cycle *)

\* A getTokenData call: "idle" (not started), "listing" (get_tokens in flight),
\* "mapping" (pMap running its mappers), "resolved" or "rejected".  stage[i] is
\* the lookup mapper i awaits, balance[i] its local balance, ret pMap's result.
\* A settled call keeps nothing but its status: its locals are garbage.
IdleSync == [status |-> "idle", ids |-> << >>, stage |-> << >>,
             balance |-> << >>, ret |-> << >>, calls |-> << >>]

Range(s) == { s[i] : i \in 1..Len(s) }

\* get_tokens({from_index: 0, limit: 100}) on the registry as it is now.
Page(reg) == SubSeq(reg, 1, Min(Len(reg), ListLimit))

\* Mutant: the balance is looked up whoever the viewer is.
FirstStageAlwaysBalance == "balance"

\* The lookup a mapper awaits first: accountId ? ft_balance_of : (null, then ft_metadata).
FirstStage == IF Truthy(accountId) THEN "balance" ELSE "metadata"

\* The view method a mapper calls in a stage.
MethodOf(stage) == IF stage = "balance" THEN "ft_balance_of" ELSE "ft_metadata"

\* Mutant: values are appended in completion order.
pMapStoreCompletionOrder(ret, i, rec) ==
    LET k == CHOOSE k \in 1..Len(ret) :
                 ret[k] = Hole /\ \A j \in 1..(k - 1) : ret[j] # Hole
    IN  [ret EXCEPT ![k] = rec]

\* pMap puts a mapper's value at the index of its input.
pMapStore(ret, i, rec) == [ret EXCEPT ![i] = rec]

\* pMap resolves once every mapper has returned.
AllDone(stage) == \A i \in 1..Len(stage) : stage[i] = "done"

\* Mutant: the list is patched every time a mapper returns.
PublishEveryReturn(c, ids, ret, done) ==
    /\ tokens' = ret
    /\ completed' = [id |-> c, ids |-> ids]

\* .then(setTokens) runs when the getTokenData promise resolves, and only then.
Publish(c, ids, ret, done) ==
    IF done
    THEN /\ tokens' = ret
         /\ completed' = [id |-> c, ids |-> ids]
    ELSE UNCHANGED <<tokens, completed>>

\* The synchronous prefix of getTokenData: get_tokens is issued.
StartSync ==
    /\ nSyncs' = nSyncs + 1
    /\ syncs' = [syncs EXCEPT ![nSyncs + 1] = [IdleSync EXCEPT !.status = "listing"]]
    /\ UNCHANGED <<tokens, completed>>

\* get_tokens resolves: pMap starts one mapper per identifier, each running up
\* to its first lookup; an empty page resolves at once.
ListResolves(c) ==
    /\ syncs[c].status = "listing"
    /\ LET ids == Page(registry)
           n == Len(ids)
       IN  /\ syncs' = [syncs EXCEPT ![c] =
                  IF n = 0
                  THEN [IdleSync EXCEPT !.status = "resolved"]
                  ELSE [status |-> "mapping",
                        ids |-> ids,
                        stage |-> [i \in 1..n |-> FirstStage],
                        balance |-> [i \in 1..n |-> Null],
                        ret |-> [i \in 1..n |-> Hole],
                        calls |-> [i \in 1..n |-> <<MethodOf(FirstStage)>>]]]
           /\ Publish(c, ids, << >>, n = 0)
    /\ UNCHANGED nSyncs
    /\ UNCHANGED <<accountId, registry, formVars, notifVars>>
    /\ lastRun' = NoRun

\* get_tokens rejects: getTokenData rejects, .then(setTokens) never runs.
ListRejects(c) ==
    /\ syncs[c].status = "listing"
    /\ syncs' = [syncs EXCEPT ![c] = [IdleSync EXCEPT !.status = "rejected"]]
    /\ UNCHANGED <<tokens, nSyncs, completed>>
    /\ UNCHANGED <<accountId, registry, formVars, notifVars>>
    /\ lastRun' = NoRun

\* The lookup mapper i awaits resolves: after ft_balance_of the mapper goes on to
\* ft_metadata; after ft_metadata it returns its record to pMap.
LookupResolves(c, i) ==
    /\ syncs[c].status = "mapping"
    /\ i \in 1..Len(syncs[c].ids)
    /\ LET cy == syncs[c]
           id == cy.ids[i]
       IN  \/ /\ cy.stage[i] = "balance"
              /\ syncs' = [syncs EXCEPT ![c].stage[i] = "metadata",
                                        ![c].balance[i] = RemoteBalance(id),
                                        ![c].calls[i] = Append(@, MethodOf("metadata"))]
              /\ UNCHANGED <<tokens, completed>>
           \/ /\ cy.stage[i] = "metadata"
              /\ LET rec == TokenData(id, cy.balance[i], RemoteMetadata(id))
                     ret == pMapStore(cy.ret, i, rec)
                     stage == [cy.stage EXCEPT ![i] = "done"]
                     done == AllDone(stage)
                 IN  /\ syncs' = [syncs EXCEPT ![c] =
                            IF done
                            THEN [IdleSync EXCEPT !.status = "resolved"]
                            ELSE [cy EXCEPT !.stage = stage, !.ret = ret]]
                     /\ Publish(c, cy.ids, ret, done)
    /\ UNCHANGED nSyncs
    /\ UNCHANGED <<accountId, registry, formVars, notifVars>>
    /\ lastRun' = NoRun

\* Mutant: the records of the mappers that have returned are displayed.
LookupRejectsShowsRest(c, i) ==
    /\ syncs[c].status = "mapping"
    /\ i \in 1..Len(syncs[c].ids)
    /\ syncs[c].stage[i] \in {"balance", "metadata"}
    /\ syncs' = [syncs EXCEPT ![c] = [IdleSync EXCEPT !.status = "rejected"]]
    /\ tokens' = SelectSeq(syncs[c].ret, LAMBDA rec : rec # Hole)
    /\ UNCHANGED <<nSyncs, completed>>
    /\ UNCHANGED <<accountId, registry, formVars, notifVars>>
    /\ lastRun' = NoRun

\* The lookup mapper i awaits rejects: pMap rejects, getTokenData rejects, and
\* what the other mappers still return is dropped.
LookupRejects(c, i) ==
    /\ syncs[c].status = "mapping"
    /\ i \in 1..Len(syncs[c].ids)
    /\ syncs[c].stage[i] \in {"balance", "metadata"}
    /\ syncs' = [syncs EXCEPT ![c] = [IdleSync EXCEPT !.status = "rejected"]]
    /\ UNCHANGED <<tokens, nSyncs, completed>>
    /\ UNCHANGED <<accountId, registry, formVars, notifVars>>
    /\ lastRun' = NoRun

----------------------------------------------------------------------------
(* The form *)

\* onChange={(e) => setButtonDisabled(e.target.value.length === 0)}; the input
\* sits in the fieldset and cannot be edited while that is disabled.
OnChange(v) ==
    /\ ~fieldsetDisabled
    /\ v # tokenValue
    /\ tokenValue' = v
    /\ buttonDisabled' = (v = "")
    /\ UNCHANGED <<fieldsetDisabled, inFlight, nSubmits>>
    /\ UNCHANGED <<accountId, registry, notifVars, syncVars>>
    /\ lastRun' = NoRun

\* onSubmit up to its await: the form is locked and add_token is issued.
onSubmit ==
    /\ nSubmits < MaxSubmits
    /\ fieldsetDisabled' = TRUE
    /\ inFlight' = inFlight \cup {[id |-> nSubmits + 1, token |-> tokenValue]}
    /\ nSubmits' = nSubmits + 1
    /\ UNCHANGED <<tokenValue, buttonDisabled>>
    /\ UNCHANGED <<accountId, registry, notifVars, syncVars>>
    /\ lastRun' = NoRun

\* The user presses the Add button: the browser submits the form only while
\* neither the button nor its fieldset is disabled.
ClickAdd ==
    /\ ~fieldsetDisabled
    /\ ~buttonDisabled
    /\ onSubmit

\* A submit event that reaches the handler without the button (requestSubmit(),
\* a dispatched event): the handler itself checks nothing.
SubmitEvent == onSubmit

\* Mutant: the form is unlocked but the list is not fetched again.
FinallyNoResync ==
    /\ fieldsetDisabled' = FALSE
    /\ UNCHANGED syncVars

\* finally: the form is unlocked, then getTokenData is called.
Finally ==
    /\ fieldsetDisabled' = FALSE
    /\ StartSync

TryEvents == <<"notify_success">>

CatchEvents(p) ==
    CASE CatchPath(p) = "notify" -> <<"notify_failure">>
      [] CatchPath(p) = "alert" -> <<"alert">>
      [] OTHER -> << >>

FinallyEvents == <<"unlock", "resync">>

\* throw e leaves the handler after the finally block has run.
RethrowEvents(p) == IF CatchPath(p) = "alert" THEN <<"throw">> ELSE << >>

\* The registry adds an identifier it does not hold yet.
RegistryAdd(reg, v) == IF v \in Range(reg) THEN reg ELSE Append(reg, v)

\* add_token resolves (the registry takes no empty account id): the rest of the
\* try block, then finally.
AddResolves(call) ==
    /\ call \in inFlight
    /\ call.token # ""
    /\ registry' = RegistryAdd(registry, call.token)
    /\ NotifySuccess(tokenValue)
    /\ Finally
    /\ inFlight' = inFlight \ {call}
    /\ lastRun' = [added |-> call.token, settle |-> "resolved", payload |-> NoPayload,
                   events |-> TryEvents \o FinallyEvents]
    /\ UNCHANGED <<accountId, tokenValue, buttonDisabled, nSubmits>>

\* add_token rejects with payload p: the catch block, then finally.
AddRejects(call, p) ==
    /\ call \in inFlight
    /\ IF CatchPath(p) = "notify" THEN NotifyNotToken ELSE UNCHANGED notifVars
    /\ Finally
    /\ inFlight' = inFlight \ {call}
    /\ lastRun' = [added |-> "", settle |-> "rejected", payload |-> p,
                   events |-> CatchEvents(p) \o FinallyEvents \o RethrowEvents(p)]
    /\ UNCHANGED <<accountId, registry, tokenValue, buttonDisabled, nSubmits>>

----------------------------------------------------------------------------
(* The list as rendered *)

RECURSIVE Pow10(_)
\* 10 ** decimals
Pow10(d) == IF d = 0 THEN 1 ELSE 10 * Pow10(d - 1)

\* The truth value JavaScript gives a number | null: null and 0 are falsy.
NumberTruthy(n) == n # Null /\ n # 0

\* The text "-".
Dash == [dash |-> TRUE, num |-> 0, den |-> 1]

\* {balance ? (balance ?? 0) / 10 ** metadata.decimals : "-"}; the quotient is
\* kept as numerator and denominator.
RenderBalance(balance, decimals) ==
    IF NumberTruthy(balance)
    THEN [dash |-> FALSE,
          num |-> (IF balance = Null THEN 0 ELSE balance),
          den |-> Pow10(decimals)]
    ELSE Dash

\* tokens.map((data) => <Token {...data} />): the balance each row shows.
Rendered ==
    [i \in 1..Len(tokens) |-> RenderBalance(tokens[i].balance, tokens[i].metadata.decimals)]

----------------------------------------------------------------------------
(* Specifications *)

SyncIds == 1..(MaxSubmits + 1)

\* The App has been rendered over the registry reg: its effect has called
\* getTokenData once.
InitWith(reg) ==
    /\ accountId \in Viewers
    /\ registry = reg
    /\ tokenValue = ""
    /\ buttonDisabled = TRUE
    /\ fieldsetDisabled = FALSE
    /\ inFlight = {}
    /\ nSubmits = 0
    /\ notificationMessage = << >>
    /\ isFailureNotification = FALSE
    /\ showNotification = FALSE
    /\ timers = << >>
    /\ tokens = << >>
    /\ syncs = [c \in SyncIds |->
                  IF c = 1 THEN [IdleSync EXCEPT !.status = "listing"] ELSE IdleSync]
    /\ nSyncs = 1
    /\ completed = [id |-> 0, ids |-> << >>]
    /\ lastRun = NoRun

SyncNext ==
    \E c \in SyncIds :
        \/ ListResolves(c)
        \/ ListRejects(c)
        \/ \E i \in 1..MaxLen : LookupResolves(c, i)
        \/ \E i \in 1..MaxLen : LookupRejects(c, i)

Next ==
    \/ \E v \in InputValues : OnChange(v)
    \/ ClickAdd
    \/ SubmitEvent
    \/ \E call \in inFlight : AddResolves(call)
    \/ \E call \in inFlight, p \in Rejections : AddRejects(call, p)
    \/ Tick
    \/ TimerFires
    \/ SyncNext

\* The registry is empty when the App is rendered.
Init == InitWith(<< >>)

Spec == Init /\ [][Next]_vars

\* The same, with every submit event coming from the Add button.
NextUI ==
    \/ \E v \in InputValues : OnChange(v)
    \/ ClickAdd
    \/ \E call \in inFlight : AddResolves(call)
    \/ \E call \in inFlight, p \in Rejections : AddRejects(call, p)
    \/ Tick
    \/ TimerFires
    \/ SyncNext

SpecUI == Init /\ [][NextUI]_vars

\* The registry already lists a token, and everything happens before the first
\* auto-clear timer is due.
InitSync == InitWith(<<"b.test">>)

NextSync ==
    \/ \E v \in InputValues : OnChange(v)
    \/ ClickAdd
    \/ SubmitEvent
    \/ \E call \in inFlight : AddResolves(call)
    \/ \E call \in inFlight, p \in Rejections : AddRejects(call, p)
    \/ SyncNext

SpecSync == InitSync /\ [][NextSync]_vars

\* One sync cycle, the one the effect starts, over any registry page of up to
\* MaxLen distinct identifiers.
Pages ==
    { s \in UNION { [1..n -> PageIdentifiers] : n \in 0..MaxLen } :
        \A i, j \in 1..Len(s) : i # j => s[i] # s[j] }

InitEnrich == \E reg \in Pages : InitWith(reg)

SpecEnrich == InitEnrich /\ [][SyncNext]_vars

\* The form and the notification alone, with time passing: no get_tokens call
\* is answered.  The event loop runs a timer callback once its delay has
\* elapsed, and time does not stop.
NextNotify ==
    \/ \E v \in InputValues : OnChange(v)
    \/ ClickAdd
    \/ SubmitEvent
    \/ \E call \in inFlight : AddResolves(call)
    \/ \E call \in inFlight, p \in Rejections : AddRejects(call, p)
    \/ Tick
    \/ TimerFires

SpecNotify == Init /\ [][NextNotify]_vars /\ WF_vars(Tick) /\ WF_vars(TimerFires)

----------------------------------------------------------------------------
(* Properties *)

Count(ev, names) == Cardinality({ i \in 1..Len(ev) : ev[i] \in names })

Position(ev, name) == CHOOSE i \in 1..Len(ev) : ev[i] = name

\* The rejection the registry's own verification step produces: JSON whose
\* kind.ExecutionError is a string containing the verification message.
KnownValidationFailure(p) ==
    /\ p.parseable
    /\ ~p.isNull
    /\ p.hasKind
    /\ p.execType = "string"
    /\ \E i, j \in 1..Len(p.execText) :
           SubSeq(p.execText, i, j) =
               <<"Unable", "to", "get", "result", "of", "token", "account", "verification">>

\* C1: while the auto-clear window of the notification shown last is still
\* open, a step that shows no new notification leaves the notification visible
\* with its message: a timer of an earlier notification does not clear it.
C1_StaleTimerCancelled ==
    [][ (timers # << >> /\ Last(timers) > 0 /\ Len(timers') <= Len(timers))
          => (showNotification' /\ notificationMessage' = notificationMessage) ]_vars

\* C2: every settled add_token call has produced exactly one of: the success
\* notification, the failure notification, the blocking alert.
C2_ExactlyOneOutcome ==
    lastRun.settle # "none"
        => Count(lastRun.events, {"notify_success", "notify_failure", "alert"}) = 1

\* C3: every rejection whose payload is not the known validation failure
\* raises the blocking alert and re-raises the error.
C3_UnmatchedRejectionAlertsAndRethrows ==
    (lastRun.settle = "rejected" /\ ~KnownValidationFailure(lastRun.payload))
        => (Count(lastRun.events, {"alert"}) = 1 /\ Count(lastRun.events, {"throw"}) = 1)

\* C4: at most one add_token call is in flight, and the form is locked while
\* one is.
C4_OneAddInFlightAndLocked ==
    /\ Cardinality(inFlight) <= 1
    /\ inFlight # {} => fieldsetDisabled

\* C5: no add_token call is ever issued for the empty identifier.
C5_EmptyInputIssuesNoAdd ==
    \A call \in inFlight : call.token # ""

\* C6: when add_token has just resolved, the notification is visible with
\* "Added <identifier> to the token list" and is not flagged as a failure.
C6_SuccessNotificationNotFailure ==
    lastRun.settle = "resolved"
        => /\ showNotification
           /\ notificationMessage = <<"Added ", lastRun.added, " to the token list">>
           /\ ~isFailureNotification

\* C7: when add_token has just been rejected with the known validation
\* failure, the failure notification is visible and flagged, no alert was
\* raised and no exception left the handler.
C7_RecognizedRejectionNotifies ==
    (lastRun.settle = "rejected" /\ KnownValidationFailure(lastRun.payload))
        => /\ showNotification
           /\ notificationMessage =
                  <<"The provided account ID does not contain a fungible token contract">>
           /\ isFailureNotification
           /\ Count(lastRun.events, {"alert", "throw"}) = 0

C7_Witness ==
    /\ lastRun.settle = "rejected"
    /\ KnownValidationFailure(lastRun.payload)
    /\ showNotification
    /\ isFailureNotification
    /\ ~fieldsetDisabled

\* C8: when an add_token call has just settled, whatever the outcome, the form
\* is unlocked and the handler has unlocked it once and then started one sync
\* cycle, whose get_tokens is in flight; and at all times the sync cycles
\* started are the mount's one plus one per settled submission.
C8_UnlockThenOneResync ==
    /\ nSyncs = 1 + (nSubmits - Cardinality(inFlight))
    /\ \A c \in SyncIds : c > nSyncs => syncs[c].status = "idle"
    /\ lastRun.settle # "none" =>
           /\ ~fieldsetDisabled
           /\ syncs[nSyncs].status = "listing"
           /\ Count(lastRun.events, {"unlock"}) = 1
           /\ Count(lastRun.events, {"resync"}) = 1
           /\ Position(lastRun.events, "unlock") < Position(lastRun.events, "resync")

C8_Witness ==
    /\ lastRun.settle = "rejected"
    /\ Count(lastRun.events, {"throw"}) = 1
    /\ inFlight = {}
    /\ ~fieldsetDisabled
    /\ nSyncs = 2
    /\ syncs[2].status = "listing"

\* C9: the displayed list is empty until a sync cycle has resolved, and from
\* then on it is the whole result of the cycle that resolved last: one record
\* per identifier of the page that cycle listed, in the page's order, none of
\* them unfilled, whatever the cycles still in flight have gathered.
C9_DisplayedIsLastCompletedCycle ==
    /\ completed.id = 0 =>
           /\ tokens = << >>
           /\ \A c \in SyncIds : syncs[c].status # "resolved"
    /\ completed.id # 0 =>
           /\ syncs[completed.id].status = "resolved"
           /\ Len(tokens) = Len(completed.ids)
           /\ \A i \in 1..Len(tokens) :
                  /\ tokens[i] # Hole
                  /\ tokens[i].accountId = completed.ids[i]
                  /\ tokens[i].metadata # NoMetadata

\* Two other cycles are still in flight, one of them half filled, while the
\* list shows the two records of the cycle that resolved.
C9_Witness ==
    /\ completed.id # 0
    /\ Len(tokens) = 2
    /\ \E c \in SyncIds :
           /\ syncs[c].status = "mapping"
           /\ \E i, j \in 1..Len(syncs[c].ret) :
                  syncs[c].ret[i] # Hole /\ syncs[c].ret[j] = Hole
    /\ \E c \in SyncIds : syncs[c].status = "listing"

\* The record the enrichment owes identifier id.
Enriched(id) ==
    [accountId |-> id,
     balance |-> IF accountId \in {"undefined", ""} THEN Null ELSE RemoteBalance(id),
     metadata |-> RemoteMetadata(id)]

\* C10: the enrichment of a non-empty page resolves with one record per
\* identifier, the i-th for the i-th identifier with that identifier's balance
\* and metadata; while mappers are still running, each one that has returned
\* has its record at its own index.
C10_EnrichKeepsOrder ==
    /\ (completed.id # 0 /\ completed.ids # << >>) =>
           /\ Len(tokens) = Len(completed.ids)
           /\ \A i \in 1..Len(completed.ids) : tokens[i] = Enriched(completed.ids[i])
    /\ \A c \in SyncIds :
           syncs[c].status = "mapping" =>
               \A i \in 1..Len(syncs[c].ids) :
                   syncs[c].ret[i] =
                       IF syncs[c].stage[i] = "done" THEN Enriched(syncs[c].ids[i]) ELSE Hole

C10_Witness ==
    /\ completed.id = 1
    /\ Len(completed.ids) = 3
    /\ completed.ids[1] = "c.test"
    /\ tokens = <<Enriched("c.test"), Enriched(completed.ids[2]), Enriched(completed.ids[3])>>

\* C11: a row shows "-" only for an absent balance; every present balance,
\* zero included, is shown as raw / 10^decimals.
C11_PresentBalanceRendersQuotient ==
    \A i \in 1..Len(tokens) :
        /\ Rendered[i].dash <=> tokens[i].balance = Null
        /\ tokens[i].balance # Null =>
               Rendered[i].num * Pow10(tokens[i].metadata.decimals)
                   = tokens[i].balance * Rendered[i].den

\* C12: with no viewer identity, every mapper of a sync cycle has called
\* ft_metadata once and ft_balance_of never, every record carries a null
\* balance, and every row shows "-".
C12_AbsentViewerSkipsBalance ==
    ~Truthy(accountId) =>
        /\ \A c \in SyncIds :
               syncs[c].status = "mapping" =>
                   \A i \in 1..Len(syncs[c].ids) :
                       /\ syncs[c].calls[i] = <<"ft_metadata">>
                       /\ syncs[c].balance[i] = Null
                       /\ syncs[c].ret[i].balance = Null
        /\ \A i \in 1..Len(tokens) :
               /\ tokens[i].balance = Null
               /\ Rendered[i] = Dash

\* The cycle has resolved over a page that holds tokens of 6, 2 and 0 decimals.
C12_Witness ==
    /\ ~Truthy(accountId)
    /\ completed.id = 1
    /\ Len(tokens) = 3
    /\ { tokens[i].metadata.decimals : i \in 1..3 } = {6, 2, 0}
    /\ \A i \in 1..3 : Rendered[i] = Dash

\* The identifiers of the rows displayed, in order.
Displayed == [i \in 1..Len(tokens) |-> tokens[i].accountId]

\* No add_token call is in flight and every sync cycle started has resolved.
Quiescent ==
    /\ inFlight = {}
    /\ \A c \in 1..nSyncs : syncs[c].status = "resolved"

\* C13: once an add has put an identifier in the registry and every call has
\* settled with no sync cycle failing, the displayed list is the registry page
\* the last re-sync read, the added identifier included: a cycle started
\* earlier that resolves later does not leave its older page displayed.
C13_ResyncResultDisplayed ==
    (Quiescent /\ \E x \in InputValues : x \in Range(registry))
        => /\ Displayed = Page(registry)
           /\ completed.id = nSyncs

\* C14: a step in which a sync cycle fails (its get_tokens or one of its
\* lookups rejects) leaves the displayed list, the lock and the notification as
\* they were and displays nothing of that cycle; a failed cycle stays failed.
C14_FailedCycleChangesNothing ==
    [][ \A c \in SyncIds :
            /\ (syncs[c].status \in {"listing", "mapping"} /\ syncs'[c].status = "rejected")
                   => /\ tokens' = tokens
                      /\ completed' = completed
                      /\ fieldsetDisabled' = fieldsetDisabled
                      /\ notifVars' = notifVars
            /\ syncs[c].status = "rejected"
                   => (syncs'[c].status = "rejected" /\ completed'.id # c) ]_vars

\* A re-sync has failed while the form is locked for the next submission and
\* a notification is visible; the list still shows the mount cycle's records.
C14_Witness ==
    /\ syncs[2].status = "rejected"
    /\ completed.id = 1
    /\ tokens # << >>
    /\ fieldsetDisabled
    /\ showNotification

\* C15: a step in which add_token is rejected with anything but the known
\* validation failure leaves message, failure flag and visibility as they were
\* and schedules no timer: the pending timers are the same as before.
C15_OtherRejectionKeepsNotification ==
    [][ (lastRun'.settle = "rejected" /\ ~KnownValidationFailure(lastRun'.payload))
            => /\ notificationMessage' = notificationMessage
               /\ isFailureNotification' = isFailureNotification
               /\ showNotification' = showNotification
               /\ timers' = timers ]_vars

\* A rejection that raised the alert has just been handled while the
\* notification of an earlier submission is visible and its timer pending.
C15_Witness ==
    /\ lastRun.settle = "rejected"
    /\ ~KnownValidationFailure(lastRun.payload)
    /\ Count(lastRun.events, {"alert"}) = 1
    /\ showNotification
    /\ notificationMessage = AddedMessage("a.test")
    /\ Len(timers) = 1

\* Nothing is shown: not visible, empty message, no failure flag.
Cleared ==
    /\ ~showNotification
    /\ notificationMessage = << >>
    /\ ~isFailureNotification

\* C16: a visible notification is eventually cleared; once no further
\* notification is shown the notification is cleared for good; and a cleared
\* notification stays cleared in every step that is not a show.
C16_NotificationEventuallyCleared ==
    /\ showNotification ~> Cleared
    /\ <>[]Cleared
    /\ [][ (Cleared /\ ~Cleared')
              => Count(lastRun'.events, {"notify_success", "notify_failure"}) = 1 ]_vars

\* A success notification has been shown and cleared, and no timer is left.
C16_Witness ==
    /\ Cleared
    /\ "a.test" \in Range(registry)
    /\ timers = << >>

\* C17: whenever the notification is not visible, its message is empty and its
\* failure flag is off.
C17_HiddenNotificationIsEmpty ==
    ~showNotification => (notificationMessage = << >> /\ ~isFailureNotification)

\* The timer of an earlier notification has hidden a later one, whose own
\* timer is still pending.
C17_Witness ==
    /\ ~showNotification
    /\ notificationMessage = << >>
    /\ Len(timers) = 1
    /\ nSubmits = 2

====
